---- MODULE Spec2Model ----
(***************************************************************************)
(* The statsd atom importer of the trace processor                         *)
(* (src/trace_processor/importers/proto/statsd_module.cc): the fan-out of  *)
(* a StatsdAtom carrier into one forged TracePacket per atom               *)
(* (TokenizePacket), and the dispatch of one forged packet                 *)
(* (ParseTracePacketData, ParseAtom, GetAtomName, InternAsyncTrackSetId).  *)
(*                                                                         *)
(* Operators that model code take the module and its context as one       *)
(* record `s` and return the record after the code ran; the actions at the *)
(* end commit such a record to the variables.                              *)
(***************************************************************************)
EXTENDS Integers, Sequences, FiniteSets, TLC

\* ------------------------------------------------------------------ bounds
\* Atoms (payloads) in one StatsdAtom carrier handed to TokenizePacket.
MaxAtoms == 3
\* Explicit timestamp_nanos entries in one carrier.
MaxStamps == 2
\* StatsdAtom records tokenized in one behaviour of SpecFanout.
MaxRecords == 1
\* Calls made on the module in one behaviour of Spec.
MaxCalls == 2
\* Width of a timestamp word. The code's is 64 (int64_t / uint64_t); the
\* model keeps two's complement arithmetic at this scaled-down width.
TsBits == 3

\* ------------------------------------------------------- program constants
\* Field ids 100000 and over are OEM atoms (line 308).
kOemAtomThreshold == 100000

kAtomProtoName == ".android.os.statsd.Atom"
kStatsdAtomFieldNumber == "TracePacket.statsd_atom"
kNullStringId == 0
kSentinelName == "Could not load atom descriptor"
kTrackSetName == "Statsd Atoms"

\* --------------------------------------------------------------- integers
TsMod == 2 ^ TsBits

\* static_cast<uint64_t>(int64_t)
ToUint64(x) == x % TsMod

\* static_cast<int64_t>(uint64_t)
ToInt64(u) == IF u >= TsMod \div 2 THEN u - TsMod ELSE u

\* ----------------------------------------------------------- wire format
\* A byte span is modelled by what protozero::ProtoDecoder reads from it: the
\* sequence of its fields. A field has a number, a wire type and, by wire
\* type, an integer value or a nested byte span. The item BadByte stands for
\* bytes no field can be decoded from (truncated or malformed input).
Field(id, wt, int, bytes) == [id |-> id, wt |-> wt, int |-> int, bytes |-> bytes]

BadByte == Field(0, "invalid", 0, <<>>)

\* protozero::Field(): what ReadField returns when no field can be read.
InvalidField == Field(0, "invalid", 0, <<>>)

\* Field::valid()
Valid(f) == f.id # 0

\* ProtoDecoder::ReadField at read position pos (1-based) of span cb.
ReadField(cb, pos) ==
    IF pos <= Len(cb) /\ Valid(cb[pos]) THEN cb[pos] ELSE InvalidField

\* Field::as_bytes(): the nested span of a length-delimited field; a field of
\* another wire type, or an invalid one, carries no bytes (size 0).
AsBytes(f) == IF f.wt = "len" THEN f.bytes ELSE <<>>

\* ------------------------------------------------------------------ inputs
\* Atom payloads: an Atom is a oneof of nested messages, so a well-formed
\* payload is one length-delimited field whose number is the atom's kind.
AtomKnown     == << Field(1, "len", 0, << Field(1, "varint", 5, <<>>) >>) >>
AtomKnownTwo  == << Field(2, "len", 0, << Field(1, "varint", 7, <<>>),
                                       Field(2, "fixed32", 1, <<>>) >>) >>
AtomUnknown   == << Field(7, "len", 0, << Field(3, "fixed32", 2, <<>>),
                                       Field(4, "len", 0, <<BadByte>>) >>) >>
AtomEdge      == << Field(kOemAtomThreshold - 1, "len", 0,
                          << Field(1, "fixed64", 3, <<>>) >>) >>
AtomOem       == << Field(kOemAtomThreshold, "len", 0,
                          << Field(1, "varint", 9, <<>>) >>) >>
AtomVarint    == << Field(8, "varint", 4, <<>>), Field(9, "varint", 6, <<>>) >>
AtomEmpty     == << >>
AtomMalformed == << BadByte >>
\* An atom whose nested message is cut short: bytes no field can be read from
\* follow its first field.
AtomTruncated == << Field(9, "len", 0, << Field(2, "varint", 3, <<>>), BadByte,
                                          Field(5, "fixed32", 1, <<>>) >>) >>

Payloads == { AtomKnown, AtomKnownTwo, AtomUnknown, AtomEdge, AtomOem,
              AtomVarint, AtomEmpty, AtomMalformed, AtomTruncated }

\* The payloads carriers are built from, and the timestamps they carry.
CarrierAtoms == { AtomKnown, AtomUnknown }
StampValues  == { -2, 1 }
PacketStamps == { -1, 3 }

SeqsUpTo(S, n) == UNION { [1..k -> S] : k \in 0..n }

\* A decoded TracePacket, as far as this module reads it.
TracePacket(timestamp, atom, timestamp_nanos) ==
    [ timestamp   |-> timestamp,
      statsd_atom |-> [ atom |-> atom, timestamp_nanos |-> timestamp_nanos ] ]

Carriers ==
    { TracePacket(0, a, t) : a \in SeqsUpTo(CarrierAtoms, MaxAtoms),
                             t \in SeqsUpTo(StampValues, MaxStamps) }

kOtherFieldNumber == "TracePacket.other"

\* The descriptor sets the module may be built from: message type name ->
\* (field number -> field name). The second lacks the Atom message.
AtomFields == (1 :> "known_atom_a") @@ (2 :> "known_atom_b")
DescriptorSets ==
    { (kAtomProtoName :> AtomFields),
      (".android.os.statsd.Other" :> AtomFields) }

\* ------------------------------------------------------------------- state
VARIABLES
    descriptor_,     \* PoolAndDescriptor::descriptor_: <<fields>>, or <<>> for nullptr
    atom_names_,     \* StatsdModule::atom_names_: field id -> StringId
    track_set_id_,   \* StatsdModule::track_set_id_: <<id>>, or <<>> for nullopt
    stats,           \* context_->storage: the stats counters
    string_pool,     \* context_->storage: the interned strings, StringId = index
    track_sets,      \* context_->async_track_set_tracker: names of the interned sets
    sorter,          \* context_->sorter: the packets pushed, in push order
    slices,          \* context_->slice_tracker and args_tracker: slices and their args
    halt,            \* "none", "check" (PERFETTO_CHECK failed) or "crash"
    log,             \* what the call in progress did that the state does not keep
    call,            \* the last call made on the module, and what it returned
    pre,             \* the module and context as they were when that call began
    calls            \* number of calls made

vars == << descriptor_, atom_names_, track_set_id_, stats, string_pool,
           track_sets, sorter, slices, halt, log, call, pre, calls >>

\* The module and its context as one record, the log of the new call empty.
Self ==
    [ descriptor_   |-> descriptor_,
      atom_names_   |-> atom_names_,
      track_set_id_ |-> track_set_id_,
      stats         |-> stats,
      string_pool   |-> string_pool,
      track_sets    |-> track_sets,
      sorter        |-> sorter,
      slices        |-> slices,
      halt          |-> halt,
      log           |-> << >> ]

\* The same at the start of a call, keeping the log of the call before.
Before == [ Self EXCEPT !.log = log ]

Commit(s) ==
    /\ descriptor_'   = s.descriptor_
    /\ atom_names_'   = s.atom_names_
    /\ track_set_id_' = s.track_set_id_
    /\ stats'         = s.stats
    /\ string_pool'   = s.string_pool
    /\ track_sets'    = s.track_sets
    /\ sorter'        = s.sorter
    /\ slices'        = s.slices
    /\ halt'          = s.halt
    /\ log'           = s.log

\* An entry of the log.
Event(e, n, bytes) == [ e |-> e, n |-> n, bytes |-> bytes ]

Logged(s, e, n, bytes) == [ s EXCEPT !.log = Append(@, Event(e, n, bytes)) ]

\* The record of a call: which operation, its arguments, its return value.
Call(op, field_id, ts, packet, bytes, id, ret) ==
    [ op |-> op, field_id |-> field_id, ts |-> ts, packet |-> packet,
      bytes |-> bytes, id |-> id, ret |-> ret ]

NoPacket == TracePacket(0, << >>, << >>)

\* ------------------------------------------------------------ construction
\* PoolAndDescriptor::PoolAndDescriptor: descriptor_ is set only when the
\* pool holds a message of the given name.
PoolAndDescriptor(data, name) ==
    IF name \in DOMAIN data THEN << data[name] >> ELSE << >>

\* StatsdModule::StatsdModule, in a fresh context.
Init ==
    /\ descriptor_ \in { PoolAndDescriptor(d, kAtomProtoName) : d \in DescriptorSets }
    /\ atom_names_ = << >>
    /\ track_set_id_ = << >>
    /\ stats = [ atom_timestamp_missing |-> 0, atom_unknown |-> 0 ]
    /\ string_pool = << >>
    /\ track_sets = << >>
    /\ sorter = << >>
    /\ slices = << >>
    /\ halt = "none"
    /\ log = << >>
    /\ call = Call("ctor", "", 0, NoPacket, << >>, 0, "")
    /\ pre = [ descriptor_ |-> << >>, atom_names_ |-> << >>, track_set_id_ |-> << >>,
               stats |-> [ atom_timestamp_missing |-> 0, atom_unknown |-> 0 ],
               string_pool |-> << >>, track_sets |-> << >>, sorter |-> << >>,
               slices |-> << >>, halt |-> "none", log |-> << >> ]
    /\ calls = 0

\* ------------------------------------------------------------ collaborators
\* TraceStorage::IncrementStats
IncrementStats(s, key) == [ s EXCEPT !.stats[key] = @ + 1 ]

\* TraceSorter::PushTracePacket: the sorter keeps the packet under key ts.
PushTracePacket(s, ts, packet) ==
    [ s EXCEPT !.sorter = Append(@, [ ts |-> ts, packet |-> packet ]) ]

\* TraceStorage::InternString: deduplicating, ids are never reused.
StringIdOf(pool, str) ==
    IF \E i \in 1..Len(pool) : pool[i] = str
    THEN CHOOSE i \in 1..Len(pool) : pool[i] = str
    ELSE Len(pool) + 1

InternString(s, str) ==
    [ s   |-> IF \E i \in 1..Len(s.string_pool) : s.string_pool[i] = str
              THEN s
              ELSE [ s EXCEPT !.string_pool = Append(@, str) ],
      ret |-> StringIdOf(s.string_pool, str) ]

\* AsyncTrackSetTracker::InternGlobalTrackSet: one set per name.
InternGlobalTrackSet(s, name) ==
    LET s1 == Logged(s, "InternGlobalTrackSet", name, << >>)
    IN  [ s   |-> IF \E i \in 1..Len(s.track_sets) : s.track_sets[i] = name
                  THEN s1
                  ELSE [ s1 EXCEPT !.track_sets = Append(@, name) ],
          ret |-> IF \E i \in 1..Len(s.track_sets) : s.track_sets[i] = name
                  THEN CHOOSE i \in 1..Len(s.track_sets) : s.track_sets[i] = name
                  ELSE Len(s.track_sets) + 1 ]

\* AsyncTrackSetTracker::Scoped: a track of the set; the model has one per set.
TrackScoped(track_set, ts, dur) == track_set

\* SliceTracker::Scoped: the new slice's id, or nullopt when the tracker
\* opens none (slice_ok is the tracker's answer).
SliceScoped(s, ts, track, category, name, dur, slice_ok) ==
    IF slice_ok
    THEN [ s   |-> [ Logged(s, "Scoped.slice", name, << >>) EXCEPT !.slices =
                        Append(@, [ ts |-> ts, track |-> track, category |-> category,
                                    name |-> name, args |-> << >> ]) ],
           ret |-> << Len(s.slices) + 1 >> ]
    ELSE [ s |-> Logged(s, "Scoped.nullopt", name, << >>), ret |-> << >> ]

\* Variadic: the type of the value and the value; a string is its StringId, a
\* real its bit pattern, a blob its bytes.
Variadic(type, int, bytes) == [ type |-> type, int |-> int, bytes |-> bytes ]

\* BoundInserter::AddArg on the slice the inserter is bound to.
AddArg(s, slice, flat_key_id, key_id, v) ==
    [ s EXCEPT !.slices[slice].args =
          Append(@, [ flat_key |-> flat_key_id, key |-> key_id, value |-> v ]) ]

\* ProtoToArgsParser::Key
Key(flat_key, key) == [ flat_key |-> flat_key, key |-> key ]

\* -------------------------------------------------------- InserterDelegate
\* Lines 50-56, 58-64, 83-89, ...: every Add* interns flat_key, then key,
\* and adds the value under the two ids.
DelegateAdd(s, slice, key, v) ==
    LET f == InternString(s, key.flat_key)
        k == InternString(f.s, key.key)
    IN  AddArg(k.s, slice, f.ret, k.ret, v)

AddInteger(s, slice, key, value) ==
    DelegateAdd(s, slice, key, Variadic("int", value, << >>))

AddDouble(s, slice, key, value) ==
    DelegateAdd(s, slice, key, Variadic("real", value, << >>))

\* Lines 74-81: the string value is interned too.
AddString(s, slice, key, value) ==
    LET f == InternString(s, key.flat_key)
        k == InternString(f.s, key.key)
        v == InternString(k.s, value)
    IN  AddArg(v.s, slice, f.ret, k.ret, Variadic("string", v.ret, << >>))

\* Delegate::AddBytes, which InserterDelegate does not override.
AddBytes(s, slice, key, value) ==
    DelegateAdd(s, slice, key, Variadic("bytes", 0, value))

\* A naming that drops the suffix of the fixed-width fields.
GenericNameNoSuffix(f) == "field_" \o ToString(f.id)

\* ------------------------------------------------------- ParseGenericEvent
\* base::StackString<64>("field_%u...", f.id())
GenericName(f) ==
    CASE f.wt = "fixed32" -> "field_" \o ToString(f.id) \o "_assuming_float"
      [] f.wt = "fixed64" -> "field_" \o ToString(f.id) \o "_assuming_double"
      [] OTHER            -> "field_" \o ToString(f.id)

\* A call of a method of the delegate, as the log keeps it.
DelegateCall(s, method, key, int, bytes) ==
    Logged(s, method, [ key |-> key, int |-> int ], bytes)

\* Lines 159-188: the switch on the wire type of one field, and the call it
\* makes on the delegate.
GenericField(s, slice, f) ==
    LET name_str == GenericName(f)
        key == Key(name_str, name_str)
    IN  CASE f.wt = "len" ->
               AddBytes(DelegateCall(s, "delegate.AddBytes", key, 0, AsBytes(f)),
                        slice, key, AsBytes(f))
          [] f.wt = "varint" ->
               AddInteger(DelegateCall(s, "delegate.AddInteger", key, f.int, << >>),
                          slice, key, f.int)
          [] f.wt = "fixed32" ->
               AddDouble(DelegateCall(s, "delegate.AddDouble", key, f.int, << >>),
                         slice, key, f.int)
          [] f.wt = "fixed64" ->
               AddDouble(DelegateCall(s, "delegate.AddDouble", key, f.int, << >>),
                         slice, key, f.int)
          [] OTHER -> s

\* Line 158: the walk, from read position pos on, ends at the first field
\* that is not valid.
RECURSIVE GenericLoop(_, _, _, _)
GenericLoop(s, slice, cb, pos) ==
    LET f == ReadField(cb, pos)
    IN  IF ~Valid(f)
        THEN s
        ELSE GenericLoop(GenericField(s, slice, f), slice, cb, pos + 1)

\* A generic decoder that reports a failure.
ParseGenericEventFailing(s, slice, cb) ==
    [ s  |-> GenericLoop(Logged(s, "ParseGenericEvent", slice, cb), slice, cb, 1),
      ok |-> FALSE ]

\* Lines 155-191. The status is always ok.
ParseGenericEvent(s, slice, cb) ==
    [ s  |-> GenericLoop(Logged(s, "ParseGenericEvent", slice, cb), slice, cb, 1),
      ok |-> TRUE ]

\* ------------------------------------------------------ ProtoToArgsParser
\* One field of the message: reported under its declared name, as flat_key
\* and as key, when the descriptor declares it.
ReflectField(s, slice, fields, f) ==
    IF f.id \notin DOMAIN fields
    THEN s
    ELSE LET key == Key(fields[f.id], fields[f.id])
         IN  CASE f.wt = "len"    -> AddBytes(s, slice, key, AsBytes(f))
               [] f.wt = "varint" -> AddInteger(s, slice, key, f.int)
               [] OTHER           -> AddDouble(s, slice, key, f.int)

RECURSIVE ReflectLoop(_, _, _, _, _)
ReflectLoop(s, slice, fields, cb, pos) ==
    LET f == ReadField(cb, pos)
    IN  IF ~Valid(f)
        THEN s
        ELSE ReflectLoop(ReflectField(s, slice, fields, f), slice, fields, cb, pos + 1)

\* ProtoToArgsParser::ParseMessage(cb, kAtomProtoName, nullptr, delegate).
\* Without a descriptor of the type nothing is decoded and the status is an
\* error; decode_ok is the status of a decode that found its descriptor.
ParseMessage(s, slice, cb, decode_ok) ==
    LET s1 == Logged(s, "ParseMessage", slice, cb)
    IN  IF s.descriptor_ = << >>
        THEN [ s |-> s1, ok |-> FALSE ]
        ELSE [ s |-> ReflectLoop(s1, slice, s.descriptor_[1], cb, 1), ok |-> decode_ok ]

\* ------------------------------------------------------------ StatsdModule
\* Lines 335-336: base::StackString<255>("atom_%u", atom_field_id)
PlaceholderName(atom_field_id) == "atom_" \o ToString(atom_field_id)

\* A resolution that never takes the declared name.
ResolveAsPlaceholder(s, atom_field_id) ==
    LET r == InternString(Logged(s, "GetAtomName.find", atom_field_id, << >>),
                          PlaceholderName(atom_field_id))
    IN  [ s   |-> [ r.s EXCEPT !.atom_names_ = (atom_field_id :> r.ret) @@ @ ],
          ret |-> r.ret ]

\* A resolution whose cache keeps the last name only.
ResolveAndEvict(s, atom_field_id) ==
    LET fields == s.descriptor_[1]
        s1 == Logged(s, "GetAtomName.find", atom_field_id, << >>)
        r == IF atom_field_id \notin DOMAIN fields
             THEN InternString(s1, PlaceholderName(atom_field_id))
             ELSE InternString(s1, fields[atom_field_id])
    IN  [ s   |-> [ r.s EXCEPT !.atom_names_ = (atom_field_id :> r.ret) ],
          ret |-> r.ret ]

\* Lines 331-342: the name is resolved against the descriptor's fields and
\* the result is cached.
ResolveAndCache(s, atom_field_id) ==
    LET fields == s.descriptor_[1]
        s1 == Logged(s, "GetAtomName.find", atom_field_id, << >>)
        r == IF atom_field_id \notin DOMAIN fields
             THEN InternString(s1, PlaceholderName(atom_field_id))
             ELSE InternString(s1, fields[atom_field_id])
    IN  [ s   |-> [ r.s EXCEPT !.atom_names_ = (atom_field_id :> r.ret) @@ @ ],
          ret |-> r.ret ]

\* A miss without a descriptor that caches the sentinel.
NoDescriptorNameCached(s, atom_field_id) ==
    LET r == InternString(IncrementStats(s, "atom_unknown"), kSentinelName)
    IN  [ s   |-> [ r.s EXCEPT !.atom_names_ = (atom_field_id :> r.ret) @@ @ ],
          ret |-> r.ret ]

\* Lines 326-329: no descriptor. Nothing is written to atom_names_.
NoDescriptorName(s, atom_field_id) ==
    InternString(IncrementStats(s, "atom_unknown"), kSentinelName)

\* A GetAtomName that never looks into atom_names_.
GetAtomNameUncached(s, atom_field_id) ==
    IF s.descriptor_ = << >>
    THEN NoDescriptorName(Logged(s, "GetAtomName.miss", atom_field_id, << >>),
                          atom_field_id)
    ELSE ResolveAndCache(Logged(s, "GetAtomName.miss", atom_field_id, << >>),
                         atom_field_id)

\* Lines 323-345.
GetAtomName(s, atom_field_id) ==
    IF atom_field_id \notin DOMAIN s.atom_names_
    THEN IF s.descriptor_ = << >>
         THEN NoDescriptorName(Logged(s, "GetAtomName.miss", atom_field_id, << >>),
                               atom_field_id)
         ELSE ResolveAndCache(Logged(s, "GetAtomName.miss", atom_field_id, << >>),
                              atom_field_id)
    ELSE [ s   |-> Logged(s, "GetAtomName.hit", atom_field_id, << >>),
           ret |-> s.atom_names_[atom_field_id] ]

\* A track set id that is interned again by every call.
InternAsyncTrackSetIdAgain(s) ==
    LET name == InternString(s, kTrackSetName)
        set  == InternGlobalTrackSet(name.s, name.ret)
    IN  [ s   |-> [ set.s EXCEPT !.track_set_id_ = << set.ret >> ],
          ret |-> set.ret ]

\* Lines 347-354.
InternAsyncTrackSetId(s) ==
    IF s.track_set_id_ = << >>
    THEN LET name == InternString(s, kTrackSetName)
             set  == InternGlobalTrackSet(name.s, name.ret)
         IN  [ s   |-> [ set.s EXCEPT !.track_set_id_ = << set.ret >> ],
               ret |-> set.ret ]
    ELSE [ s |-> s, ret |-> s.track_set_id_[1] ]

\* A tag taken from the last field the walk of the payload yields.
RECURSIVE NestedFieldIdLast(_)
NestedFieldIdLast(nested_bytes) ==
    IF ~Valid(ReadField(nested_bytes, 1)) THEN 0
    ELSE IF ~Valid(ReadField(nested_bytes, 2)) THEN ReadField(nested_bytes, 1).id
    ELSE NestedFieldIdLast(Tail(nested_bytes))

\* Lines 281-286: the id of the first field of the payload, 0 when the
\* first read yields no valid field.
NestedFieldId(nested_bytes) ==
    IF Valid(ReadField(nested_bytes, 1)) THEN ReadField(nested_bytes, 1).id ELSE 0

\* An unknown atom that is never counted.
UnknownAtomUncounted(s, slice, nested_bytes) ==
    ParseGenericEvent(s, slice, AsBytes(ReadField(nested_bytes, 1)))

\* An unknown atom that is counted whatever its field id.
UnknownAtomCounted(s, slice, nested_bytes) ==
    ParseGenericEvent(IncrementStats(s, "atom_unknown"), slice,
                      AsBytes(ReadField(nested_bytes, 1)))

\* An unknown atom whose whole payload goes to the generic decoder.
UnknownAtomWhole(s, slice, nested_bytes) ==
    LET s1 == IF NestedFieldId(nested_bytes) < kOemAtomThreshold
              THEN IncrementStats(s, "atom_unknown")
              ELSE s
    IN  ParseGenericEvent(s1, slice, nested_bytes)

\* Lines 304-312: the field is not in the descriptor.
UnknownAtom(s, slice, nested_bytes) ==
    LET s1 == IF NestedFieldId(nested_bytes) < kOemAtomThreshold
              THEN IncrementStats(s, "atom_unknown")
              ELSE s
    IN  ParseGenericEvent(s1, slice, AsBytes(ReadField(nested_bytes, 1)))

\* A known atom that is handed to the generic decoder.
KnownAtomGeneric(s, slice, nested_bytes, decode_ok) ==
    ParseGenericEvent(s, slice, AsBytes(ReadField(nested_bytes, 1)))

\* Lines 313-316: the field is in the descriptor.
KnownAtom(s, slice, nested_bytes, decode_ok) ==
    ParseMessage(s, slice, nested_bytes, decode_ok)

\* Lines 300-316. With descriptor_ == nullptr line 300 dereferences a null
\* pointer: the call crashes, or the lookup on the garbage map runs and finds
\* nothing ("end") or something ("hit"); ub is which.
DecodeAtom(s, slice, nested_bytes, decode_ok, ub) ==
    IF s.descriptor_ = << >>
    THEN CASE ub = "crash" -> [ s |-> [ s EXCEPT !.halt = "crash" ], ok |-> TRUE ]
           [] ub = "end"   -> UnknownAtom(s, slice, nested_bytes)
           [] OTHER        -> KnownAtom(s, slice, nested_bytes, decode_ok)
    ELSE LET s1 == Logged(s, "ParseAtom.find", NestedFieldId(nested_bytes), << >>)
         IN  IF NestedFieldId(nested_bytes) \notin DOMAIN s.descriptor_[1]
             THEN UnknownAtom(s1, slice, nested_bytes)
             ELSE KnownAtom(s1, slice, nested_bytes, decode_ok)

\* Lines 318-320: the status of the decoder that ran, and its count.
CountFailure(r) ==
    IF r.s.halt # "none"
    THEN r.s
    ELSE IF r.ok
         THEN Logged(r.s, "status.ok", 0, << >>)
         ELSE IncrementStats(Logged(r.s, "status.error", 0, << >>), "atom_unknown")

\* Lines 289-298: the slice of the event. Without one the call returns.
OpenSlice(s, ts, atom_name, slice_ok) ==
    LET track_set == InternAsyncTrackSetId(s)
        track == TrackScoped(track_set.ret, ts, 0)
    IN  SliceScoped(track_set.s, ts, track, kNullStringId, atom_name, 0, slice_ok)

\* A ParseAtom that does not return when no slice was opened.
ParseAtomNoReturn(s, ts, nested_bytes, slice_ok, decode_ok, ub) ==
    LET atom_name == GetAtomName(Logged(s, "ParseAtom", ts, nested_bytes),
                                 NestedFieldId(nested_bytes))
        opt_slice == OpenSlice(atom_name.s, ts, atom_name.ret, slice_ok)
    IN  CountFailure(DecodeAtom(opt_slice.s, Len(opt_slice.s.slices), nested_bytes,
                                decode_ok, ub))

\* Lines 273-321.
ParseAtom(s, ts, nested_bytes, slice_ok, decode_ok, ub) ==
    LET atom_name == GetAtomName(Logged(s, "ParseAtom", ts, nested_bytes),
                                 NestedFieldId(nested_bytes))
        opt_slice == OpenSlice(atom_name.s, ts, atom_name.ret, slice_ok)
    IN  IF opt_slice.ret = << >>
        THEN opt_slice.s
        ELSE CountFailure(DecodeAtom(opt_slice.s, opt_slice.ret[1], nested_bytes,
                                     decode_ok, ub))

\* Lines 268-270: the two checks around the call of ParseAtom.
CheckFailed(s) == [ s EXCEPT !.halt = "check" ]

\* A ParseTracePacketData without the check after the call.
ParseFirstAtomUnchecked(s, atoms, ts, slice_ok, decode_ok, ub) ==
    IF Len(atoms) = 0
    THEN CheckFailed(s)
    ELSE ParseAtom(s, ts, atoms[1], slice_ok, decode_ok, ub)

ParseFirstAtom(s, atoms, ts, slice_ok, decode_ok, ub) ==
    IF Len(atoms) = 0
    THEN CheckFailed(s)
    ELSE LET s1 == ParseAtom(s, ts, atoms[1], slice_ok, decode_ok, ub)
         IN  IF s1.halt = "none" /\ Len(atoms) > 1 THEN CheckFailed(s1) ELSE s1

\* Lines 257-271.
ParseTracePacketDataBody(s, decoder, ts, field_id, slice_ok, decode_ok, ub) ==
    IF field_id # kStatsdAtomFieldNumber
    THEN s
    ELSE ParseFirstAtom(s, decoder.statsd_atom.atom, ts, slice_ok, decode_ok, ub)

\* ---------------------------------------------------------- TokenizePacket
\* Lines 232-237: the timestamp of the atom the loop is at; it_timestamps is
\* the position of the timestamp iterator in wrapper.timestamp_nanos.
HasTimestamp(wrapper, it_timestamps) ==
    it_timestamps <= Len(wrapper.timestamp_nanos)

AtomTimestamp(wrapper, it_timestamps, packet_timestamp) ==
    IF HasTimestamp(wrapper, it_timestamps)
    THEN wrapper.timestamp_nanos[it_timestamps]
    ELSE packet_timestamp

\* A tokenizer whose timestamp iterator is never advanced.
NextTimestampStuck(wrapper, it_timestamps) == it_timestamps

\* Line 233: *it_timestamps++ advances the iterator only when it was read.
NextTimestamp(wrapper, it_timestamps) ==
    IF HasTimestamp(wrapper, it_timestamps) THEN it_timestamps + 1 ELSE it_timestamps

\* A tokenizer that counts every atom as lacking its timestamp.
CountMissingAlways(s, wrapper, it_timestamps) ==
    IncrementStats(s, "atom_timestamp_missing")

\* Line 235: the fallback is counted.
CountMissing(s, wrapper, it_timestamps) ==
    IF HasTimestamp(wrapper, it_timestamps)
    THEN s
    ELSE IncrementStats(s, "atom_timestamp_missing")

\* A forged packet the atom was never appended to.
ForgeEmpty(atom_timestamp, atom) ==
    TracePacket(ToUint64(atom_timestamp), << >>, << >>)

\* Lines 239-247: the forged TracePacket, holding the timestamp as the
\* uint64 field it is and a StatsdAtom with the one atom.
Forge(atom_timestamp, atom) ==
    TracePacket(ToUint64(atom_timestamp), << atom >>, << >>)

\* Lines 229-252: the loop, from atom it on.
RECURSIVE TokenizeLoop(_, _, _, _, _)
TokenizeLoop(s, wrapper, packet_timestamp, it, it_timestamps) ==
    IF it > Len(wrapper.atom)
    THEN s
    ELSE LET atom_timestamp == AtomTimestamp(wrapper, it_timestamps, packet_timestamp)
             s1 == CountMissing(s, wrapper, it_timestamps)
             s2 == PushTracePacket(s1, atom_timestamp,
                                   Forge(atom_timestamp, wrapper.atom[it]))
         IN  TokenizeLoop(s2, wrapper, packet_timestamp, it + 1,
                          NextTimestamp(wrapper, it_timestamps))

\* Lines 219-255.
TokenizePacketBody(s, decoder, packet_timestamp, field_id) ==
    IF field_id # kStatsdAtomFieldNumber
    THEN [ s |-> s, ret |-> "Ignored" ]
    ELSE [ s   |-> TokenizeLoop(s, decoder.statsd_atom, packet_timestamp, 1, 1),
           ret |-> "Handled" ]

TokenizePacket(decoder, packet_timestamp, field_id) ==
    LET r == TokenizePacketBody(Self, decoder, packet_timestamp, field_id)
    IN  /\ halt = "none"
        /\ Commit(r.s)
        /\ call' = Call("TokenizePacket", field_id, packet_timestamp, decoder,
                        << >>, 0, r.ret)
        /\ pre' = Before
        /\ calls' = calls + 1

\* ------------------------------------------------------------ SpecFanout
\* The tokenizer alone: records arrive and are fanned out to the sorter.
TokenizeStatsd ==
    /\ calls < MaxRecords
    /\ \E decoder \in Carriers, packet_timestamp \in PacketStamps :
          TokenizePacket(decoder, packet_timestamp, kStatsdAtomFieldNumber)

TokenizeOther ==
    /\ calls < MaxRecords
    /\ \E packet_timestamp \in PacketStamps :
          TokenizePacket(NoPacket, packet_timestamp, kOtherFieldNumber)

NextFanout == TokenizeStatsd \/ TokenizeOther

SpecFanout == Init /\ [][NextFanout]_vars

\* ------------------------------------------------------------------- Spec
\* The parser side: packets are handed to ParseTracePacketData, and names
\* are asked of GetAtomName.
UbOutcomes == { "crash", "end", "hit" }

\* The StatsdAtom contents of the packets handed over: none, one or several
\* atoms.
Envelopes ==
    { << >> } \cup { << p >> : p \in Payloads }
      \cup { << AtomKnown, AtomUnknown >>, << AtomUnknown, AtomKnown >>,
             << AtomKnown, AtomKnown, AtomOem >> }

AtomIds == { NestedFieldId(p) : p \in Payloads }

ParseTracePacketData(decoder, ts, field_id, slice_ok, decode_ok, ub) ==
    /\ halt = "none"
    /\ Commit(ParseTracePacketDataBody(Self, decoder, ts, field_id,
                                       slice_ok, decode_ok, ub))
    /\ call' = Call("ParseTracePacketData", field_id, ts, decoder, << >>, 0, "")
    /\ pre' = Before
    /\ calls' = calls + 1

ParseStatsd ==
    /\ calls < MaxCalls
    /\ \E atoms \in Envelopes, ts \in PacketStamps, slice_ok \in BOOLEAN,
          decode_ok \in BOOLEAN, ub \in UbOutcomes :
          ParseTracePacketData(TracePacket(ToUint64(ts), atoms, << >>), ts,
                               kStatsdAtomFieldNumber, slice_ok, decode_ok, ub)

ParseOther ==
    /\ calls < MaxCalls
    /\ \E ts \in PacketStamps :
          ParseTracePacketData(NoPacket, ts, kOtherFieldNumber, TRUE, TRUE, "crash")

GetAtomNameCall ==
    /\ calls < MaxCalls
    /\ halt = "none"
    /\ \E atom_field_id \in AtomIds :
          LET r == GetAtomName(Self, atom_field_id)
          IN  /\ Commit(r.s)
              /\ call' = Call("GetAtomName", "", 0, NoPacket, << >>, atom_field_id,
                              r.s.string_pool[r.ret])
              /\ pre' = Before
              /\ calls' = calls + 1

Next == ParseStatsd \/ ParseOther \/ GetAtomNameCall

Spec == Init /\ [][Next]_vars

\* ----------------------------------------------------------- SpecPipeline
\* Tokenizer, sorter and parser together: a record is fanned out to the
\* sorter, which later hands the packets it holds back, one at a time and in
\* an order of its own, each to ParseTracePacketData with the timestamp it
\* was pushed under.
PipelineTokenize ==
    /\ calls = 0
    /\ \E decoder \in Carriers, packet_timestamp \in PacketStamps :
          TokenizePacket(decoder, packet_timestamp, kStatsdAtomFieldNumber)

\* TraceSorter: the packet at position i leaves the sorter.
ExtractTracePacket(s, i) ==
    [ s EXCEPT !.sorter = SubSeq(@, 1, i - 1) \o SubSeq(@, i + 1, Len(@)) ]

Redeliver ==
    /\ halt = "none"
    /\ \E i \in DOMAIN sorter, slice_ok \in BOOLEAN, decode_ok \in BOOLEAN,
          ub \in UbOutcomes :
          /\ Commit(ParseTracePacketDataBody(ExtractTracePacket(Self, i),
                                             sorter[i].packet, sorter[i].ts,
                                             kStatsdAtomFieldNumber,
                                             slice_ok, decode_ok, ub))
          /\ call' = Call("ParseTracePacketData", kStatsdAtomFieldNumber,
                          sorter[i].ts, sorter[i].packet, << >>, i, "")
          /\ pre' = Before
          /\ calls' = calls + 1

NextPipeline == PipelineTokenize \/ Redeliver

SpecPipeline == Init /\ [][NextPipeline]_vars

\* ================================================================= claims
\* The last call was TokenizePacket on a statsd_atom field.
Tokenized ==
    call.op = "TokenizePacket" /\ call.field_id = kStatsdAtomFieldNumber

\* The atoms and explicit timestamps of the carrier of the last call.
CarrierAtomsOf == call.packet.statsd_atom.atom
CarrierStampsOf == call.packet.statsd_atom.timestamp_nanos

\* The timestamp the i-th atom of the carrier is due: the i-th explicit one,
\* the packet's when there is none.
DueTimestamp(i) ==
    IF i <= Len(CarrierStampsOf) THEN CarrierStampsOf[i] ELSE call.ts

\* The packets the last call pushed to the sorter.
Pushed == SubSeq(sorter, Len(pre.sorter) + 1, Len(sorter))

\* C1: TokenizePacket on a carrier of n atoms and m timestamps pushes exactly
\* n packets to the sorter, after those already there and in atom order; the
\* i-th holds the one atom a_i, is keyed by t_i when i <= m and by the packet
\* timestamp otherwise, and its timestamp field is that same 64-bit value
\* (written as the uint64 the field is, it reads back as the key).
C1_FanoutOrder ==
    Tokenized =>
        /\ Len(sorter) = Len(pre.sorter) + Len(CarrierAtomsOf)
        /\ SubSeq(sorter, 1, Len(pre.sorter)) = pre.sorter
        /\ \A i \in 1..Len(CarrierAtomsOf) :
              /\ Pushed[i].packet.statsd_atom.atom = << CarrierAtomsOf[i] >>
              /\ Pushed[i].packet.statsd_atom.timestamp_nanos = << >>
              /\ Pushed[i].ts = DueTimestamp(i)
              /\ Pushed[i].packet.timestamp = ToUint64(DueTimestamp(i))
              /\ ToInt64(Pushed[i].packet.timestamp) = Pushed[i].ts

\* Atoms [p0, p1, p2] with p0 # p1, timestamps [t0, t1] with t0 # t1, and a
\* packet timestamp tR that is neither: three packets were pushed.
C1_Witness ==
    /\ Tokenized
    /\ Len(CarrierAtomsOf) = 3 /\ Len(CarrierStampsOf) = 2
    /\ CarrierAtomsOf[1] # CarrierAtomsOf[2]
    /\ CarrierStampsOf[1] # CarrierStampsOf[2]
    /\ Len(Pushed) = 3
    /\ Pushed[1].ts = CarrierStampsOf[1]
    /\ Pushed[2].ts = CarrierStampsOf[2]
    /\ Pushed[3].ts = call.ts
    /\ Pushed[1].ts < 0 /\ Pushed[3].ts < 0

\* C2: one TokenizePacket call on a carrier of n atoms and m timestamps
\* raises atom_timestamp_missing by max(0, n - m), touches no other counter
\* and ends without a failure, also when m = 0 and when m >= n.
C2_MissingCount ==
    Tokenized =>
        /\ stats.atom_timestamp_missing =
              pre.stats.atom_timestamp_missing +
                 ( IF Len(CarrierAtomsOf) > Len(CarrierStampsOf)
                   THEN Len(CarrierAtomsOf) - Len(CarrierStampsOf)
                   ELSE 0 )
        /\ stats.atom_unknown = pre.stats.atom_unknown
        /\ halt = "none"
        /\ call.ret = "Handled"

\* Three atoms and two timestamps: the counter went up by one.
C2_Witness ==
    /\ Tokenized
    /\ Len(CarrierAtomsOf) = 3 /\ Len(CarrierStampsOf) = 2
    /\ stats.atom_timestamp_missing = pre.stats.atom_timestamp_missing + 1

\* The last call was ParseTracePacketData on a statsd_atom field.
Delivered ==
    call.op = "ParseTracePacketData" /\ call.field_id = kStatsdAtomFieldNumber

DeliveredAtoms == call.packet.statsd_atom.atom

\* ... and it held an atom, which ParseAtom was called on.
Parsed == Delivered /\ Len(DeliveredAtoms) >= 1

ParsedBytes == DeliveredAtoms[1]

\* The number of the first field of the payload, 0 when it has none.
ParsedId ==
    IF Len(ParsedBytes) >= 1 /\ ParsedBytes[1].wt # "invalid"
    THEN ParsedBytes[1].id
    ELSE 0

\* The payload has a first field to take the number of.
HasFirstField == Len(ParsedBytes) >= 1 /\ ParsedBytes[1].wt # "invalid"

CatalogLoaded == descriptor_ # << >>

\* The payload's first field number is not defined in the root descriptor.
Unresolvable == CatalogLoaded /\ ParsedId \notin DOMAIN descriptor_[1]

\* How many times the last call did e.
Count(e) == Cardinality({ i \in DOMAIN log : log[i].e = e })

\* By how much the last call raised atom_unknown.
UnknownDelta == stats.atom_unknown - pre.stats.atom_unknown

\* The last call opened a slice.
SliceOpened == Count("Scoped.slice") = 1

\* The name the last call asked a slice for.
ScopedName ==
    LET i == CHOOSE i \in DOMAIN log : log[i].e \in { "Scoped.slice", "Scoped.nullopt" }
    IN  string_pool[log[i].n]

\* C3 as stated: one ParseAtom of a payload whose first field number is not
\* defined in the root descriptor and is below 100000 raises atom_unknown by
\* exactly one, whatever the collaborators answer.
C3_Original ==
    (Parsed /\ HasFirstField /\ Unresolvable /\ ParsedId < kOemAtomThreshold) =>
        UnknownDelta = 1

\* C3 as amended: with the root descriptor loaded, one ParseAtom of such a
\* payload raises atom_unknown by exactly one when the slice tracker opened
\* the slice, and leaves it unchanged when the tracker opened none; this on a
\* first and on a repeated occurrence of the tag.
C3_UnknownCountedOnce ==
    (Parsed /\ Unresolvable /\ ParsedId < kOemAtomThreshold) =>
        /\ Count("Scoped.slice") + Count("Scoped.nullopt") = 1
        /\ UnknownDelta = (IF SliceOpened THEN 1 ELSE 0)

\* A repeated occurrence of an unknown tag below 100000, its slice opened.
C3_Witness ==
    /\ Parsed /\ HasFirstField /\ Unresolvable /\ ParsedId < kOemAtomThreshold
    /\ ParsedId \in DOMAIN pre.atom_names_
    /\ SliceOpened
    /\ UnknownDelta = 1
    /\ pre.stats.atom_unknown = 1

\* C4 as stated: one ParseAtom of a payload whose first field number cannot
\* be resolved and is 100000 or more leaves atom_unknown unchanged in every
\* state of the module, the one without a root descriptor included.
C4_Original ==
    (Parsed /\ HasFirstField /\ ParsedId >= kOemAtomThreshold
       /\ (~CatalogLoaded \/ Unresolvable)) =>
        UnknownDelta = 0

\* C4 as amended: with the root descriptor loaded, one ParseAtom of a payload
\* whose first field number is not defined in it and is 100000 or more leaves
\* atom_unknown unchanged, whether or not the slice was opened and on a first
\* and a repeated occurrence of the tag.
C4_OemNotCounted ==
    (Parsed /\ Unresolvable /\ ParsedId >= kOemAtomThreshold) => UnknownDelta = 0

\* An OEM atom went through the generic decoder, its slice opened.
C4_Witness ==
    /\ Parsed /\ Unresolvable /\ ParsedId >= kOemAtomThreshold
    /\ SliceOpened
    /\ Count("ParseGenericEvent") = 1
    /\ ParsedId \in DOMAIN pre.atom_names_
    /\ UnknownDelta = 0

\* The tag of the last ParseAtom was in the name cache when the call began.
CacheHit == Parsed /\ ParsedId \in DOMAIN pre.atom_names_

\* C5 as stated: a ParseAtom call on a tag resolved by an earlier call uses
\* the same name and makes no lookup on the descriptor's field table.
C5_Original ==
    (CacheHit /\ HasFirstField) =>
        /\ ScopedName = pre.string_pool[pre.atom_names_[ParsedId]]
        /\ Count("GetAtomName.find") + Count("ParseAtom.find") = 0

\* C5 as amended: a ParseAtom call on a tag resolved by an earlier call
\* takes the name from the cache: the slice is asked for under the name the
\* earlier call resolved, the cache is not written and GetAtomName makes no
\* lookup on the descriptor's field table. ParseAtom itself still makes its
\* one lookup (line 301) to choose the decoder, when the slice was opened.
\* A direct GetAtomName call on a cached tag makes no lookup at all.
C5_NameFromCache ==
    /\ CacheHit =>
          /\ CatalogLoaded
          /\ Count("GetAtomName.hit") = 1
          /\ Count("GetAtomName.miss") = 0
          /\ Count("GetAtomName.find") = 0
          /\ ScopedName = pre.string_pool[pre.atom_names_[ParsedId]]
          /\ atom_names_ = pre.atom_names_
          /\ Count("ParseAtom.find") = (IF SliceOpened THEN 1 ELSE 0)
    /\ (call.op = "GetAtomName" /\ call.id \in DOMAIN pre.atom_names_) =>
          /\ call.ret = pre.string_pool[pre.atom_names_[call.id]]
          /\ atom_names_ = pre.atom_names_
          /\ Count("GetAtomName.find") = 0

\* A second ParseAtom on a tag the call before resolved, its slice opened.
C5_Witness ==
    /\ CacheHit /\ HasFirstField
    /\ pre.log # << >> /\ pre.log[1].e = "ParseAtom"
    /\ NestedFieldId(pre.log[1].bytes) = ParsedId
    /\ ParsedId \in DOMAIN descriptor_[1]
    /\ SliceOpened
    /\ Count("ParseAtom.find") = 1

\* C6: without a root descriptor the name cache stays empty; every
\* GetAtomName call, direct or made by ParseAtom, takes the miss path again,
\* returns "Could not load atom descriptor" and raises atom_unknown by one.
C6_MissNeverCached ==
    ~CatalogLoaded =>
        /\ atom_names_ = << >>
        /\ call.op = "GetAtomName" =>
              /\ log = << Event("GetAtomName.miss", call.id, << >>) >>
              /\ call.ret = kSentinelName
              /\ UnknownDelta = 1
        /\ Parsed =>
              /\ Count("GetAtomName.miss") = 1
              /\ Count("GetAtomName.hit") = 0
              /\ ScopedName = kSentinelName
              /\ UnknownDelta >= 1

\* The second of two GetAtomName calls for the same id, without a descriptor.
C6_Witness ==
    /\ ~CatalogLoaded
    /\ call.op = "GetAtomName"
    /\ pre.log = << Event("GetAtomName.miss", call.id, << >>) >>
    /\ call.ret = kSentinelName
    /\ stats.atom_unknown = 2

\* The args of the slice the last call opened.
OpenedArgs == slices[Len(slices)].args

\* Names the root descriptor declares.
DeclaredNames == { AtomFields[k] : k \in DOMAIN AtomFields }

\* C7 as stated: without a root descriptor, a ParseAtom whose slice the
\* tracker opens names that one slice "Could not load atom descriptor", adds
\* no arg under a declared field name, raises atom_unknown by exactly one and
\* returns.
C7_Claim ==
    (Parsed /\ HasFirstField /\ Len(DeliveredAtoms) = 1 /\ ~CatalogLoaded
       /\ SliceOpened) =>
        /\ halt = "none"
        /\ Len(slices) = Len(pre.slices) + 1
        /\ string_pool[slices[Len(slices)].name] = kSentinelName
        /\ \A i \in DOMAIN OpenedArgs :
              string_pool[OpenedArgs[i].key] \notin DeclaredNames
        /\ UnknownDelta = 1

\* The call before the last one was a ParseAtom that got no slice.
DroppedBefore ==
    \E i \in DOMAIN pre.log : pre.log[i].e = "Scoped.nullopt"

\* C8: a ParseAtom that gets no slice from the tracker adds no slice and no
\* arg, runs neither ParseMessage nor ParseGenericEvent and does not crash
\* (a packet of one atom leaves the module running); the ParseAtom after it
\* runs its decoder once when its slice is opened.
C8_NoSliceDropsEvent ==
    /\ (Parsed /\ Count("Scoped.nullopt") = 1) =>
          /\ slices = pre.slices
          /\ Count("ParseMessage") = 0
          /\ Count("ParseGenericEvent") = 0
          /\ halt # "crash"
          /\ (Len(DeliveredAtoms) = 1 => halt = "none")
    /\ (DroppedBefore /\ Parsed /\ SliceOpened /\ CatalogLoaded) =>
          /\ Count("ParseMessage") + Count("ParseGenericEvent") = 1
          /\ Len(slices) = Len(pre.slices) + 1
          /\ halt # "crash"

\* An event is dropped after an earlier one had its args added.
C8_Witness ==
    /\ Parsed /\ Count("Scoped.nullopt") = 1
    /\ Len(DeliveredAtoms) = 1
    /\ ParsedId \in DOMAIN AtomFields
    /\ Len(pre.slices) = 1 /\ Len(pre.slices[1].args) >= 1
    /\ slices = pre.slices
    /\ halt = "none"

\* C9: ParseTracePacketData on a statsd_atom field fails its check only on a
\* packet of zero or of several atoms, and such a packet always halts the
\* run; with the root descriptor loaded the check fails exactly then. A
\* packet of no atom runs no ParseAtom; any other runs ParseAtom exactly
\* once, first thing, on the first atom and with the timestamp given.
C9_PayloadCountCheck ==
    Delivered =>
        /\ halt = "check" => Len(DeliveredAtoms) # 1
        /\ Len(DeliveredAtoms) # 1 => halt # "none"
        /\ CatalogLoaded => (halt = "check" <=> Len(DeliveredAtoms) # 1)
        /\ Len(DeliveredAtoms) = 0 => log = << >>
        /\ Len(DeliveredAtoms) >= 1 =>
              /\ Count("ParseAtom") = 1
              /\ log[1] = Event("ParseAtom", call.ts, DeliveredAtoms[1])

\* A packet of two atoms: the first was parsed, then the check failed.
C9_Witness ==
    /\ Delivered /\ Len(DeliveredAtoms) = 2
    /\ Count("ParseAtom") = 1
    /\ SliceOpened
    /\ halt = "check"

\* C10 as stated: the run halts only on the payload-count check of
\* ParseTracePacketData.
C10_Claim ==
    halt # "none" =>
        /\ halt = "check"
        /\ Delivered
        /\ Len(DeliveredAtoms) # 1

\* The name the root descriptor gives tag k: the declared name of field k,
\* "atom_<k>" when it declares no field k.
DisplayName(k) ==
    IF k \in DOMAIN descriptor_[1] THEN descriptor_[1][k] ELSE "atom_" \o ToString(k)

\* C11: with the root descriptor loaded, GetAtomName returns for tag k, on a
\* miss and on a hit of the cache, the declared name of field k when the
\* descriptor declares it and "atom_<k>" otherwise; every cached name is that
\* name, and it is the name ParseAtom asks the slice for and the opened slice
\* carries.
C11_ResolvedName ==
    CatalogLoaded =>
        /\ call.op = "GetAtomName" => call.ret = DisplayName(call.id)
        /\ \A k \in DOMAIN atom_names_ : string_pool[atom_names_[k]] = DisplayName(k)
        /\ Parsed => ScopedName = DisplayName(ParsedId)
        /\ (Parsed /\ SliceOpened) =>
              string_pool[slices[Len(slices)].name] = DisplayName(ParsedId)

\* A declared tag found in the cache: its slice carries the declared name.
C11_Witness ==
    /\ CatalogLoaded /\ CacheHit /\ HasFirstField
    /\ ParsedId \in DOMAIN descriptor_[1]
    /\ SliceOpened
    /\ string_pool[slices[Len(slices)].name] = "known_atom_a"

\* The last two calls were ParseAtom calls on the same payload bytes, the
\* slice tracker opening a slice for each.
DispatchedTwice ==
    /\ Parsed /\ Len(DeliveredAtoms) = 1
    /\ pre.log # << >> /\ pre.log[1].e = "ParseAtom"
    /\ pre.log[1].bytes = ParsedBytes
    /\ \E i \in DOMAIN pre.log : pre.log[i].e = "Scoped.slice"
    /\ SliceOpened

\* C12 as stated: two ParseAtom calls on the same payload bytes, against the
\* same descriptor pool, both complete, open their slices under the same
\* name and add the same args (keys, values, order) to them; between the two
\* only the name cache and the track set id may have been filled.
C12_Claim ==
    DispatchedTwice =>
        /\ halt = "none"
        /\ Len(slices) = Len(pre.slices) + 1
        /\ slices[Len(slices)].name = slices[Len(slices) - 1].name
        /\ slices[Len(slices)].args = slices[Len(slices) - 1].args
        /\ descriptor_ = pre.descriptor_

\* The span the last call handed to ParseGenericEvent.
GenericSpan ==
    log[CHOOSE i \in DOMAIN log : log[i].e = "ParseGenericEvent"].bytes

\* The fields a walk over span cb yields: those before the first bytes no
\* field can be read from.
Walked(cb) ==
    LET bad == { i \in 1..Len(cb) : cb[i].wt = "invalid" }
    IN  SubSeq(cb, 1, IF bad = {} THEN Len(cb)
                      ELSE (CHOOSE i \in bad : \A j \in bad : i <= j) - 1)

\* The calls the last call made on the delegate, in order.
IsDelegateCall(ev) ==
    ev.e \in { "delegate.AddBytes", "delegate.AddInteger", "delegate.AddDouble" }

DelegateCalls == SelectSeq(log, IsDelegateCall)

\* The attribute the naming policy gives field f.
InferredName(f) ==
    "field_" \o ToString(f.id) \o
        ( IF f.wt = "fixed32" THEN "_assuming_float"
          ELSE IF f.wt = "fixed64" THEN "_assuming_double" ELSE "" )

Inferred(f) ==
    [ e     |-> IF f.wt = "len" THEN "delegate.AddBytes"
                ELSE IF f.wt = "varint" THEN "delegate.AddInteger"
                ELSE "delegate.AddDouble",
      n     |-> [ key |-> [ flat_key |-> InferredName(f), key |-> InferredName(f) ],
                  int |-> IF f.wt = "len" THEN 0 ELSE f.int ],
      bytes |-> IF f.wt = "len" THEN f.bytes ELSE << >> ]

C14_Original ==
    (Parsed /\ (Unresolvable \/ ~CatalogLoaded) /\ Count("ParseGenericEvent") = 1) =>
        /\ Walked(GenericSpan) = Walked(ParsedBytes)
        /\ Len(OpenedArgs) = Len(Walked(ParsedBytes))

\* The bytes of the first field of the payload of the last ParseAtom: the
\* nested span of a length-delimited field, no bytes otherwise.
FirstFieldBytes ==
    IF HasFirstField /\ ParsedBytes[1].wt = "len" THEN ParsedBytes[1].bytes ELSE << >>

\* C14 as amended: with the root descriptor loaded, a ParseAtom whose tag it
\* does not declare and whose slice was opened runs ParseGenericEvent, not
\* ParseMessage; and whenever ParseAtom runs ParseGenericEvent the span handed
\* over is the bytes of the first field of the payload (field.as_bytes()),
\* not the payload: the args are one per field of that nested span, and the
\* other top-level fields of the payload give none.
C14_FirstFieldDelegated ==
    /\ (Parsed /\ SliceOpened /\ Unresolvable) =>
          /\ Count("ParseGenericEvent") = 1
          /\ Count("ParseMessage") = 0
    /\ (Parsed /\ Count("ParseGenericEvent") = 1) =>
          /\ GenericSpan = FirstFieldBytes
          /\ Len(OpenedArgs) = Len(Walked(FirstFieldBytes))

\* An unknown atom of one top-level field holding two nested fields: the two
\* nested fields gave the args.
C14_Witness ==
    /\ Parsed /\ SliceOpened /\ Unresolvable /\ HasFirstField
    /\ Len(ParsedBytes) = 1
    /\ Count("ParseGenericEvent") = 1
    /\ GenericSpan = ParsedBytes[1].bytes
    /\ GenericSpan # ParsedBytes
    /\ Len(OpenedArgs) = 2

\* The root descriptor declares the first field of the payload.
Resolvable == CatalogLoaded /\ HasFirstField /\ ParsedId \in DOMAIN descriptor_[1]

\* The args the last ParseAtom added: those of the slice it opened.
DeliveredArgs == IF SliceOpened THEN OpenedArgs ELSE << >>

\* One of the args delivered is named by the declared name of the tag.
NamedByDeclaredField ==
    \E i \in DOMAIN DeliveredArgs :
        /\ string_pool[DeliveredArgs[i].key] = descriptor_[1][ParsedId]
        /\ string_pool[DeliveredArgs[i].key] # ""
        /\ DeliveredArgs[i].flat_key = DeliveredArgs[i].key

C16_RedeliveryPassesChecks ==
    /\ \A i \in DOMAIN sorter : Len(sorter[i].packet.statsd_atom.atom) = 1
    /\ Delivered =>
          /\ Len(DeliveredAtoms) = 1
          /\ Count("ParseAtom") = 1
          /\ call.ts = ToInt64(call.packet.timestamp)
          /\ halt # "check"
          /\ CatalogLoaded => halt = "none"

\* Of three packets pushed, the last one, pushed under the timestamp of the
\* record, is handed back first.
C16_Witness ==
    /\ Delivered
    /\ Len(pre.sorter) = 3 /\ call.id = 3
    /\ Len(sorter) = 2
    /\ pre.sorter[3].ts \in PacketStamps
    /\ SliceOpened
    /\ halt = "none"

\* The tag the call that ends in the next state resolves: the argument of a
\* GetAtomName call, the first field number of the atom of a ParseAtom call.
ResolvesNext(k) ==
    \/ call'.op = "GetAtomName" /\ call'.id = k
    \/ /\ call'.op = "ParseTracePacketData"
       /\ call'.field_id = kStatsdAtomFieldNumber
       /\ Len(call'.packet.statsd_atom.atom) >= 1
       /\ NestedFieldId(call'.packet.statsd_atom.atom[1]) = k

\* C17: no call removes an entry of atom_names_ or changes the StringId it
\* holds, nor the string that id stands for; and a call adds an entry for
\* tag k only when it resolves tag k and the root descriptor is loaded.
C17_CacheOnlyGrows ==
    [][ /\ \A k \in DOMAIN atom_names_ :
              /\ k \in DOMAIN atom_names_'
              /\ atom_names_'[k] = atom_names_[k]
              /\ string_pool'[atom_names_'[k]] = string_pool[atom_names_[k]]
        /\ \A k \in DOMAIN atom_names_' \ DOMAIN atom_names_ :
              /\ descriptor_ # << >>
              /\ ResolvesNext(k)
        /\ Cardinality(DOMAIN atom_names_') <= Cardinality(DOMAIN atom_names_) + 1
      ]_vars

\* Two calls resolved two tags: both are in the cache, the first as it was.
C17_Witness ==
    /\ Cardinality(DOMAIN atom_names_) = 2
    /\ Cardinality(DOMAIN pre.atom_names_) = 1
    /\ \A k \in DOMAIN pre.atom_names_ : atom_names_[k] = pre.atom_names_[k]
    /\ Parsed

\* The call that ends in the next state runs ParseAtom.
ParsesNext ==
    /\ call'.op = "ParseTracePacketData"
    /\ call'.field_id = kStatsdAtomFieldNumber
    /\ Len(call'.packet.statsd_atom.atom) >= 1

\* How many times that call invokes InternGlobalTrackSet.
InternsNext ==
    Cardinality({ i \in DOMAIN log' : log'[i].e = "InternGlobalTrackSet" })

\* C18: track_set_id_ is empty until the first ParseAtom call; that call, and
\* no call before it, invokes InternGlobalTrackSet, once, and keeps the id;
\* no later call invokes it again or changes the id, and every slice a
\* ParseAtom call opens is on the track of that one set.
C18_TrackSetOnce ==
    [][ /\ (track_set_id_ = << >> /\ ~ParsesNext) =>
              (track_set_id_' = << >> /\ InternsNext = 0)
        /\ (track_set_id_ = << >> /\ ParsesNext) =>
              (track_set_id_' # << >> /\ InternsNext = 1)
        /\ track_set_id_ # << >> =>
              (track_set_id_' = track_set_id_ /\ InternsNext = 0)
        /\ (ParsesNext /\ Len(slices') > Len(slices)) =>
              slices'[Len(slices')].track = TrackScoped(track_set_id_'[1], call'.ts, 0)
        /\ Len(track_sets') <= 1
      ]_vars

\* A second ParseAtom call: it found the id set and interned nothing.
C18_Witness ==
    /\ Parsed
    /\ pre.track_set_id_ # << >>
    /\ \E i \in DOMAIN pre.log : pre.log[i].e = "InternGlobalTrackSet"
    /\ Count("InternGlobalTrackSet") = 0
    /\ track_set_id_ = pre.track_set_id_
    /\ SliceOpened
    /\ slices[Len(slices)].track = pre.track_set_id_[1]
    /\ Len(track_sets) = 1

\* C19: with the root descriptor loaded, one ParseAtom call raises
\* atom_unknown by one at most. The count of an undeclared tag below 100000
\* and the count of a failed status never fall in the same call, the status
\* of ParseGenericEvent being ok; a call on a declared tag raises the counter
\* exactly when ParseMessage ran and returned a status that is not ok.
C19_AtMostOneCount ==
    (Parsed /\ CatalogLoaded) =>
        /\ UnknownDelta \in { 0, 1 }
        /\ Count("ParseGenericEvent") = 1 =>
              /\ Count("status.error") = 0
              /\ Count("ParseMessage") = 0
        /\ Unresolvable =>
              (UnknownDelta = 1 <=> (SliceOpened /\ ParsedId < kOemAtomThreshold))
        /\ Resolvable =>
              /\ UnknownDelta = 1 <=> Count("status.error") = 1
              /\ Count("status.error") = 1 => Count("ParseMessage") = 1
              /\ Count("ParseGenericEvent") = 0

\* A declared atom whose decode failed: counted once.
C19_Witness ==
    /\ Parsed /\ Resolvable /\ SliceOpened
    /\ Count("ParseMessage") = 1
    /\ Count("status.error") = 1
    /\ UnknownDelta = 1

\* The tag the last ParseAtom asked GetAtomName the name of.
DispatchedTag ==
    log[CHOOSE i \in DOMAIN log :
            log[i].e \in { "GetAtomName.miss", "GetAtomName.hit" }].n

\* The payload of the last ParseAtom yields no field, the root descriptor is
\* loaded and declares no field 0.
TagZeroCase ==
    /\ Parsed /\ Walked(ParsedBytes) = << >>
    /\ CatalogLoaded /\ 0 \notin DOMAIN descriptor_[1]

\* C20 as stated: the tag of a payload is the number of the first field the
\* walk yields, 0 when it yields none; a payload that yields none, with the
\* root descriptor loaded and no field 0 declared, has its slice asked for
\* under "atom_0", raises atom_unknown by one and adds no arg.
C20_Original ==
    /\ Parsed =>
          DispatchedTag = (IF Walked(ParsedBytes) = << >> THEN 0
                           ELSE Walked(ParsedBytes)[1].id)
    /\ TagZeroCase =>
          /\ ScopedName = "atom_0"
          /\ UnknownDelta = 1
          /\ DeliveredArgs = << >>

\* C20 as amended: the same, atom_unknown being raised by one when the slice
\* tracker opened the slice, ParseGenericEvent then running on a span of no
\* bytes, and left unchanged when it opened none.
C20_TagZero ==
    /\ Parsed =>
          DispatchedTag = (IF Walked(ParsedBytes) = << >> THEN 0
                           ELSE Walked(ParsedBytes)[1].id)
    /\ TagZeroCase =>
          /\ DispatchedTag = 0
          /\ ScopedName = "atom_0"
          /\ UnknownDelta = (IF SliceOpened THEN 1 ELSE 0)
          /\ DeliveredArgs = << >>
          /\ DelegateCalls = << >>
          /\ SliceOpened =>
                /\ Count("ParseGenericEvent") = 1
                /\ GenericSpan = << >>
                /\ Count("ParseMessage") = 0

\* A payload of unreadable bytes got a slice named "atom_0" without args.
C20_Witness ==
    /\ TagZeroCase
    /\ Len(ParsedBytes) = 1
    /\ SliceOpened
    /\ string_pool[slices[Len(slices)].name] = "atom_0"
    /\ OpenedArgs = << >>
    /\ UnknownDelta = 1

====
